---------------------------- MODULE Spec2Model ----------------------------
(***************************************************************************)
(* A model of h5p_downloader.py: main() authenticates (cached session or   *)
(* two-step login) and then process_csv() walks the record stream,         *)
(* resolving and downloading every record with a chain of fallback URLs.   *)
(*                                                                         *)
(* Strings are sequences of tokens.  Free text (labels, names) is spelled  *)
(* one character per token; the fixed literals of URLs ("/content/",       *)
(* ".h5p", the base URL) are one token each.                               *)
(***************************************************************************)
EXTENDS Integers, Sequences, FiniteSets, TLC

\* The longest record stream process_csv is given.
MaxRecords == 2

None == <<"<None>">>

(***************************************************************************)
(* String helpers                                                          *)
(***************************************************************************)
UpperChars == <<"A","B","C","D","E","F","G","H","I","J","K","L","M",
                "N","O","P","Q","R","S","T","U","V","W","X","Y","Z">>
LowerChars == <<"a","b","c","d","e","f","g","h","i","j","k","l","m",
                "n","o","p","q","r","s","t","u","v","w","x","y","z">>
Digits == {"0","1","2","3","4","5","6","7","8","9"}
Whitespace == {" ", "\t"}

\* str.lower() on one token
LowerTok(c) ==
    IF \E i \in 1..26 : UpperChars[i] = c
    THEN LowerChars[CHOOSE i \in 1..26 : UpperChars[i] = c]
    ELSE IF c = "Login" \/ c = "LOGIN" THEN "login"
    ELSE IF c = "SSO" THEN "sso"
    ELSE IF c = "SAML" THEN "saml"
    ELSE c

\* str.lower()
Lower(s) == [i \in 1..Len(s) |-> LowerTok(s[i])]

RECURSIVE LStrip(_, _)
LStrip(s, chars) ==
    IF s /= <<>> /\ Head(s) \in chars THEN LStrip(Tail(s), chars) ELSE s

RECURSIVE RStrip(_, _)
RStrip(s, chars) ==
    IF s /= <<>> /\ s[Len(s)] \in chars
    THEN RStrip(SubSeq(s, 1, Len(s) - 1), chars) ELSE s

\* str.strip() / str.strip(chars)
Strip(s, chars) == RStrip(LStrip(s, chars), chars)

\* re.sub(r'\s+', ' ', s)
RECURSIVE CollapseWs(_)
CollapseWs(s) ==
    IF s = <<>> THEN <<>>
    ELSE IF Head(s) \in Whitespace
         THEN <<" ">> \o CollapseWs(LStrip(s, Whitespace))
         ELSE <<Head(s)>> \o CollapseWs(Tail(s))

\* s.replace(a, b) for one-token a
Replace(s, a, b) == [i \in 1..Len(s) |-> IF s[i] = a THEN b ELSE s[i]]

UrlSafeChars == {LowerChars[i] : i \in 1..26} \cup Digits \cup {"-"}

IsUrlSafe(c) == c \in UrlSafeChars

\* format_name without its last substitution
format_name_NoFilter(name) ==
    LET formatted1 == Lower(Strip(name, Whitespace))
        formatted2 == CollapseWs(formatted1)
    IN  Replace(formatted2, " ", "-")

\* format_name: lowercase, dash-separated, only [a-z0-9-]
format_name(name) ==
    LET formatted1 == Lower(Strip(name, Whitespace))
        formatted2 == CollapseWs(formatted1)
        formatted3 == Replace(formatted2, " ", "-")
    IN  SelectSeq(formatted3, IsUrlSafe)

InvalidChars == {"<", ">", ":", "\"", "/", "\\", "|", "?", "*"}

\* format_folder_name without its final strip('. ')
format_folder_name_NoFinalStrip(name) ==
    LET formatted1 == Strip(name, Whitespace)
    IN  [i \in 1..Len(formatted1) |->
            IF formatted1[i] \in InvalidChars THEN "_" ELSE formatted1[i]]

\* format_folder_name: keeps case, replaces invalid path characters
format_folder_name(name) ==
    LET formatted1 == Strip(name, Whitespace)
        formatted2 == [i \in 1..Len(formatted1) |->
                          IF formatted1[i] \in InvalidChars THEN "_"
                          ELSE formatted1[i]]
    IN  Strip(formatted2, {".", " "})

\* pathlib.Path(*parts): empty parts add no segment
IsNonEmpty(p) == p /= <<>>

\* a join of the parts that keeps the empty ones
Path_KeepsEmpty(parts) == parts

Path(parts) == SelectSeq(parts, IsNonEmpty)

\* create_hierarchical_path appending the module before the course
HierarchicalPath_ModuleFirst(course, module, section, output_dir) ==
    Path(<<output_dir>>
         \o (IF module /= <<>> THEN <<format_folder_name(module)>> ELSE <<>>)
         \o (IF course /= <<>> THEN <<format_folder_name(course)>> ELSE <<>>)
         \o (IF section /= <<>> THEN <<format_folder_name(section)>> ELSE <<>>))

\* create_hierarchical_path: the folder output_dir/Course/Module/Section
HierarchicalPath(course, module, section, output_dir) ==
    Path(<<output_dir>>
         \o (IF course /= <<>> THEN <<format_folder_name(course)>> ELSE <<>>)
         \o (IF module /= <<>> THEN <<format_folder_name(module)>> ELSE <<>>)
         \o (IF section /= <<>> THEN <<format_folder_name(section)>> ELSE <<>>))

\* \d in a str pattern: any Unicode decimal digit, ARABIC-INDIC DIGIT THREE
\* standing for those outside 0-9
DecimalDigits == Digits \cup {"<U+0663>"}

\* extract_id: re.search(r'/content/(\d+)', url), the leftmost match
RECURSIVE DigitRun(_)
DigitRun(s) ==
    IF s /= <<>> /\ Head(s) \in DecimalDigits THEN <<Head(s)>> \o DigitRun(Tail(s))
    ELSE <<>>

extract_id(url) ==
    LET hits == {i \in 1..(Len(url) - 1) :
                    url[i] = "/content/" /\ url[i + 1] \in DecimalDigits}
    IN  IF hits = {} THEN None
        ELSE LET i == CHOOSE j \in hits : \A k \in hits : j <= k
             IN  DigitRun(SubSeq(url, i + 1, Len(url)))

base_url == <<"https://h5p.com">>

\* construct_download_url
ConstructFilename(content_id, formatted_name) ==
    formatted_name \o <<"-">> \o content_id \o <<".h5p">>

construct_download_url(content_id, formatted_name) ==
    base_url \o <<"/media/exports/">> \o content_id \o <<"/">>
             \o ConstructFilename(content_id, formatted_name)

HttpTokens == {"https://h5p.com", "https://cdn.h5p.com"}
SlashTokens == {"/", "/content/", "/media/exports/", "/export/",
                "/h5p/exports/", "/wp-content/uploads/h5p/exports/"}

\* the rebasing of a scraped link onto base_url (process_csv)
Rebase(actual_url) ==
    IF Head(actual_url) \in HttpTokens THEN actual_url
    ELSE IF Head(actual_url) \in SlashTokens THEN base_url \o actual_url
    ELSE base_url \o <<"/">> \o actual_url

\* the fallback list with its first two patterns exchanged
Fallbacks_Reordered(content_id, formatted_name) ==
    << base_url \o <<"/h5p/exports/">>
                \o ConstructFilename(content_id, formatted_name),
       base_url \o <<"/wp-content/uploads/h5p/exports/">>
                \o ConstructFilename(content_id, formatted_name),
       base_url \o <<"/export/">> \o content_id,
       base_url \o <<"/content/">> \o content_id \o <<"/download">> >>

\* the fixed list of fallback export URLs (process_csv)
Fallbacks(content_id, formatted_name) ==
    << base_url \o <<"/wp-content/uploads/h5p/exports/">>
                \o ConstructFilename(content_id, formatted_name),
       base_url \o <<"/h5p/exports/">>
                \o ConstructFilename(content_id, formatted_name),
       base_url \o <<"/export/">> \o content_id,
       base_url \o <<"/content/">> \o content_id \o <<"/download">> >>


(***************************************************************************)
(* State                                                                   *)
(***************************************************************************)
VARIABLES
    pc,             \* the statement main() / the method it called is at
    cookie_file,    \* the session store on disk: "missing", "valid", "corrupt"
    authenticated,  \* self.authenticated
    auth_result,    \* what ensure_authenticated returned: "none", "true", "false"
    probe_status,   \* test_session's response status (0: not probed, -1: raised)
    login_page,     \* login(): its last response (step, status, final URL) and
                    \* what the markup of that response holds
    authLog,        \* the requests of the authentication phase and the call
                    \* of save_cookies, in order
    entries,        \* process_csv: list(reader)
    is_hierarchical,
    total, successful, failed,
    idx,            \* the 1-based position of the loop over entries
    batch_end,      \* how process_csv ended: "none", "summary", "not_found", "error"
    row,            \* the locals of the record being processed
    actual_url,     \* what analyze_content_page returned
    soup,           \* analyze_content_page: the parsed content page
    attempts,       \* the URLs download_file was called with for this record
    rowReqs,        \* the kinds of requests issued for this record
    dl,             \* the locals of the running download_file call
    dirs,           \* the directories that exist under the output root
    files,          \* the files written: [path, content], "partial" or "complete"
    issued,         \* the kinds of batch requests issued in this run
    rows,           \* convert_csv: list(csv.reader(f))
    row_index,      \* convert_csv: the 1-based number i of the row at hand
    last_course, last_module, last_section, last_subsection,
    output_rows,    \* convert_csv: the rows to be written
    h5p_count, skipped_zip, skipped_other   \* convert_csv: its tallies

authVars  == <<cookie_file, authenticated, auth_result, probe_status,
               login_page, authLog>>
loopVars  == <<entries, is_hierarchical, total, successful, failed, idx>>
batchVars == <<loopVars, batch_end>>
rowVars   == <<row, actual_url, attempts, rowReqs, soup>>
fsVars    == <<dirs, files>>
convVars  == <<rows, row_index, last_course, last_module, last_section,
               last_subsection, output_rows, h5p_count, skipped_zip,
               skipped_other>>
vars      == <<pc, authVars, batchVars, rowVars, dl, fsVars, issued, convVars>>

output_dir == <<"downloads">>

NoRow == [course |-> <<>>, module |-> <<>>, section |-> <<>>, unit |-> <<>>,
          content_name |-> <<>>, content_url |-> <<>>, target_dir |-> <<>>,
          content_id |-> None, formatted_name |-> <<>>, filename |-> <<>>]

NoDl == [url |-> <<>>, output_path |-> <<>>, head_status |-> 0,
         status |-> 0, content_type |-> <<>>, result |-> "none",
         log |-> <<>>, files_at_call |-> {}]

\* an element of the page: its href and data-url attributes (None: absent)
NoElem == [present |-> FALSE, href |-> None, data_url |-> None]
Elem(href, data_url) == [present |-> TRUE, href |-> href, data_url |-> data_url]

\* analyze_content_page is not running, or has parsed nothing yet
NoSoup == [a_href |-> NoElem, button |-> NoElem, a_class |-> NoElem,
           scripts |-> <<>>]

NoPage == [step |-> 0, status |-> 0, url |-> <<>>, form |-> FALSE,
           token |-> FALSE, action |-> "none", password |-> FALSE]

Init ==
    /\ pc = "ensure_authenticated"
    /\ cookie_file \in {"missing", "valid", "corrupt"}
    /\ authenticated = FALSE
    /\ auth_result = "none"
    /\ probe_status = 0
    /\ login_page = NoPage
    /\ authLog = <<>>
    /\ entries = <<>>
    /\ is_hierarchical = FALSE
    /\ total = 0 /\ successful = 0 /\ failed = 0 /\ idx = 0
    /\ batch_end = "none"
    /\ row = NoRow
    /\ actual_url = None
    /\ soup = NoSoup
    /\ attempts = <<>>
    /\ rowReqs = {}
    /\ dl = NoDl
    /\ dirs = {}
    /\ files = {}
    /\ issued = {}
    /\ rows = <<>>
    /\ row_index = 0
    /\ last_course = <<>> /\ last_module = <<>>
    /\ last_section = <<>> /\ last_subsection = <<>>
    /\ output_rows = <<>>
    /\ h5p_count = 0 /\ skipped_zip = 0 /\ skipped_other = 0

(***************************************************************************)
(* Authentication: ensure_authenticated, load_cookies, test_session, login *)
(***************************************************************************)
\* load_cookies: True only when the store exists and unpickles
load_cookies == cookie_file = "valid"

\* ensure_authenticated probing the session whatever load_cookies returned
EnsureAuthenticated_AlwaysProbes ==
    /\ pc = "ensure_authenticated"
    /\ pc' = "test_session"
    /\ UNCHANGED <<authVars, batchVars, rowVars, dl, fsVars, issued>>
    /\ UNCHANGED convVars

\* ensure_authenticated up to its first network call
EnsureAuthenticated ==
    /\ pc = "ensure_authenticated"
    /\ pc' = IF load_cookies THEN "test_session" ELSE "login"
    /\ UNCHANGED <<authVars, batchVars, rowVars, dl, fsVars, issued>>
    /\ UNCHANGED convVars

ProbeStatuses == {200, 302, 500}

\* ensure_authenticated logging in afresh even though the probe succeeded
AfterProbe_AlwaysLogin(valid) ==
    /\ pc' = "login"
    /\ UNCHANGED <<authenticated, auth_result>>

\* ensure_authenticated after test_session returned `valid`
AfterProbe(valid) ==
    IF valid
    THEN /\ authenticated' = TRUE
         /\ auth_result' = "true"
         /\ pc' = "main"
    ELSE /\ pc' = "login"
         /\ UNCHANGED <<authenticated, auth_result>>

\* test_session: GET <base>/content without following redirects
TestSession ==
    /\ pc = "test_session"
    /\ authLog' = Append(authLog, "PROBE")
    /\ \E st \in ProbeStatuses \cup {-1} :
          /\ probe_status' = st
          /\ AfterProbe(st = 200)
    /\ UNCHANGED <<cookie_file, login_page, batchVars, rowVars, dl, fsVars,
                   issued>>
    /\ UNCHANGED convVars

\* login() returning False, `page` being the response it gave up on
LoginFailed(page) ==
    /\ auth_result' = "false"
    /\ pc' = "main"
    /\ login_page' = page
    /\ UNCHANGED <<authenticated, cookie_file>>

\* the form_action attribute of the login form: absent, relative or absolute
FormActions == {"none", "relative", "absolute"}

\* the final URL of a response, after redirects
IntroduceUrl == <<"https://h5p.com", "/", "login", "/", "introduce">>
SsoUrl     == <<"https://idp.example", "/", "SSO", "/", "start">>
SamlUrl    == <<"https://idp.example", "/", "saml">>
LoginUrl   == base_url \o <<"/", "login">>
LoginUrlUc == base_url \o <<"/", "Login", "/", "password">>
HomeUrl    == base_url \o <<"/", "dashboard">>

\* 'x' in url.lower()
Contains(url, x) == \E i \in 1..Len(url) : LowerTok(url[i]) = x

\* a response of login(): the step it answers, its status (-1: the request
\* raised) and final URL, and the form, token, action and password field of
\* its markup
Response(step, status, url, form, token, action, password) ==
    [step |-> step, status |-> status, url |-> url, form |-> form,
     token |-> token, action |-> action, password |-> password]

Raised(step) == Response(step, -1, <<>>, FALSE, FALSE, "none", FALSE)

\* login step 1 without the check for the form and its CSRF token
AfterLoginForm_NoFormCheck(page) ==
    IF page.status /= 200
    THEN LoginFailed(page)
    ELSE /\ login_page' = page
         /\ pc' = "login_email"
         /\ UNCHANGED <<authenticated, auth_result, cookie_file>>

\* login step 1 after the GET returned: the status, the form, the CSRF token
AfterLoginForm(page) ==
    IF page.status /= 200 \/ ~page.form \/ ~page.token
    THEN LoginFailed(page)
    ELSE /\ login_page' = page
         /\ pc' = "login_email"
         /\ UNCHANGED <<authenticated, auth_result, cookie_file>>

\* login step 1: GET /login/introduce, find the form and the CSRF token
LoginGetForm ==
    /\ pc = "login"
    /\ authLog' = Append(authLog, "GET_LOGIN")
    /\ \/ \* the request raises
          LoginFailed(Raised(1))
       \/ \E status \in {200, 500}, form \in BOOLEAN, token \in BOOLEAN,
             action \in FormActions :
             AfterLoginForm(Response(1, status, IntroduceUrl, form, token,
                                     IF form THEN action ELSE "none", FALSE))
    /\ UNCHANGED <<probe_status, batchVars, rowVars, dl, fsVars, issued>>
    /\ UNCHANGED convVars

\* login step 2 after the POST returned: the SSO redirect, the password field
AfterEmailPost(page) ==
    IF Contains(page.url, "sso") \/ Contains(page.url, "saml")
    THEN LoginFailed(page)
    ELSE IF ~page.password
    THEN LoginFailed(page)
    ELSE /\ login_page' = page
         /\ pc' = "login_password"
         /\ UNCHANGED <<authenticated, auth_result, cookie_file>>

\* login step 2: POST the email to the form's action
LoginPostEmail ==
    /\ pc = "login_email"
    /\ \/ \* session.post raises before sending: the action is no absolute URL
          /\ login_page.action /= "absolute"
          /\ LoginFailed(login_page)
          /\ UNCHANGED authLog
       \/ /\ login_page.action = "absolute"
          /\ authLog' = Append(authLog, "POST_EMAIL")
          /\ \/ \* transport failure
                LoginFailed(Raised(2))
             \/ \E url \in {SsoUrl, SamlUrl, LoginUrl, LoginUrlUc},
                   password \in BOOLEAN, action \in FormActions :
                   AfterEmailPost(Response(2, 200, url, action /= "none",
                                           TRUE, action, password))
    /\ UNCHANGED <<probe_status, batchVars, rowVars, dl, fsVars, issued>>
    /\ UNCHANGED convVars

\* save_cookies: the store is written, or the failure is logged
save_cookies(ok) ==
    cookie_file' = IF ok THEN "valid" ELSE cookie_file

\* login step 4 taking any 200 response for a successful login
VerifyLogin_IgnoresUrl(page) ==
    IF page.status = 200
    THEN /\ authenticated' = TRUE
         /\ authLog' = authLog \o <<"POST_PASSWORD", "SAVE">>
         /\ \E ok \in BOOLEAN : save_cookies(ok)
         /\ auth_result' = "true"
         /\ login_page' = page
         /\ pc' = "main"
    ELSE /\ authLog' = Append(authLog, "POST_PASSWORD")
         /\ LoginFailed(page)

\* login step 4: the verification of the password POST's final response
VerifyLogin(page) ==
    IF page.status = 200 /\ ~Contains(page.url, "login")
    THEN /\ authenticated' = TRUE
         /\ authLog' = authLog \o <<"POST_PASSWORD", "SAVE">>
         /\ \E ok \in BOOLEAN : save_cookies(ok)
         /\ auth_result' = "true"
         /\ login_page' = page
         /\ pc' = "main"
    ELSE /\ authLog' = Append(authLog, "POST_PASSWORD")
         /\ LoginFailed(page)

\* login step 3: POST email and password (the action rebased onto base_url)
LoginPostPassword ==
    /\ pc = "login_password"
    /\ \/ \* transport failure
          /\ authLog' = Append(authLog, "POST_PASSWORD")
          /\ LoginFailed(Raised(3))
       \/ \E status \in {200, 401}, url \in {HomeUrl, LoginUrl, LoginUrlUc} :
             VerifyLogin(Response(3, status, url, FALSE, FALSE, "none",
                                  FALSE))
    /\ UNCHANGED <<probe_status, batchVars, rowVars, dl, fsVars, issued>>
    /\ UNCHANGED convVars

\* main() going on to process_csv whatever ensure_authenticated returned
Main_IgnoresAuthResult ==
    /\ pc = "main"
    /\ pc' = "process_csv"
    /\ UNCHANGED <<authVars, batchVars, rowVars, dl, fsVars, issued>>
    /\ UNCHANGED convVars

\* main(): process the CSV only when ensure_authenticated returned True
Main ==
    /\ pc = "main"
    /\ pc' = IF auth_result = "true" THEN "process_csv" ELSE "finished"
    /\ UNCHANGED <<authVars, batchVars, rowVars, dl, fsVars, issued>>
    /\ UNCHANGED convVars


(***************************************************************************)
(* The record stream                                                       *)
(***************************************************************************)
IntroQuiz  == <<"I","n","t","r","o"," ","Q","u","i","z">>
UrlWithId  == <<"https://h5p.com", "/content/", "1","2","3","4","5">>
UrlWithId7 == <<" ", "https://h5p.com", "/content/", "7", "/", "view">>
UrlNoId    == <<"https://h5p.com", "/content/", "a","b","c">>
UrlWideId  == <<"https://h5p.com", "/content/", "<U+0663>", "1">>

HierFields == {"course", "module", "section", "unit", "content_url"}
HierRows ==
    { [course |-> <<"M","a","t","h">>, module |-> <<"A","l","g">>,
       section |-> <<"B","a","s","i","c","s">>, unit |-> IntroQuiz,
       content_url |-> UrlWithId],
      [course |-> <<>>, module |-> <<>>, section |-> <<>>, unit |-> <<>>,
       content_url |-> UrlWithId7],
      [course |-> <<"M","a","t","h">>, module |-> <<>>, section |-> <<>>,
       unit |-> <<"Q">>, content_url |-> <<" ">>],
      [course |-> <<>>, module |-> <<"A","l","g">>, section |-> <<>>,
       unit |-> <<>>, content_url |-> UrlNoId] }

LegacyFields == {"content_name", "content_url"}
LegacyRows ==
    { [content_name |-> IntroQuiz, content_url |-> UrlWithId],
      [content_name |-> <<>>, content_url |-> UrlWithId7],
      [content_name |-> <<"Q">>, content_url |-> <<>>] }

SeqsUpTo(S, n) == UNION {[1..k -> S] : k \in 0..n}

\* the CSV files process_csv may be given: the header's field names, the rows
CsvFiles ==
    {[fieldnames |-> HierFields, rows |-> r] : r \in SeqsUpTo(HierRows, MaxRecords)}
    \cup
    {[fieldnames |-> LegacyFields, rows |-> r] : r \in SeqsUpTo(LegacyRows, MaxRecords)}

\* row.get(key, '').strip()
Get(r, key) == IF key \in DOMAIN r THEN Strip(r[key], Whitespace) ELSE <<>>

(***************************************************************************)
(* process_csv                                                             *)
(***************************************************************************)
\* the outer `except` of process_csv: the error is logged, the method returns
ProcessCsvExcept ==
    /\ batch_end' = "error"
    /\ pc' = "finished"

\* process_csv: open the CSV, read the header and every row, the file being
\* one of `csvs`
ReadCsvFrom(csvs) ==
    /\ pc = "process_csv"
    /\ \/ \* FileNotFoundError
          /\ batch_end' = "not_found"
          /\ pc' = "finished"
          /\ UNCHANGED <<entries, is_hierarchical, total, successful, failed,
                         idx>>
       \/ \E csv \in csvs :
             /\ is_hierarchical' = ("course" \in csv.fieldnames
                                    \/ "module" \in csv.fieldnames)
             /\ entries' = csv.rows
             /\ total' = Len(csv.rows)
             /\ successful' = 0
             /\ failed' = 0
             /\ idx' = 1
             /\ pc' = "row"
             /\ UNCHANGED batch_end
    /\ UNCHANGED <<authVars, rowVars, dl, fsVars, issued>>
    /\ UNCHANGED convVars

ReadCsv == ReadCsvFrom(CsvFiles)

\* `unit or section or module`, with no placeholder
ContentName_NoPlaceholder(unit, section, module) ==
    IF unit /= <<>> THEN unit
    ELSE IF section /= <<>> THEN section
    ELSE module

\* `unit or section or module or 'untitled'`
ContentName(unit, section, module) ==
    IF unit /= <<>> THEN unit
    ELSE IF section /= <<>> THEN section
    ELSE IF module /= <<>> THEN module
    ELSE <<"u","n","t","i","t","l","e","d">>

\* the locals process_csv reads from one row of a hierarchical file, and its
\* destination folder
HierLocals(r) ==
    [course |-> Get(r, "course"), module |-> Get(r, "module"),
     section |-> Get(r, "section"), unit |-> Get(r, "unit"),
     content_url |-> Get(r, "content_url"),
     content_name |-> ContentName(Get(r, "unit"), Get(r, "section"),
                                  Get(r, "module")),
     target_dir |-> HierarchicalPath(Get(r, "course"), Get(r, "module"),
                                     Get(r, "section"), output_dir),
     content_id |-> None, formatted_name |-> <<>>, filename |-> <<>>]

\* the legacy branch reading the name from the column `unit`
LegacyLocals_ReadsUnit(r) ==
    [course |-> <<>>, module |-> <<>>, section |-> <<>>, unit |-> <<>>,
     content_url |-> Get(r, "content_url"),
     content_name |-> Get(r, "unit"),
     target_dir |-> Path(<<output_dir>>),
     content_id |-> None, formatted_name |-> <<>>, filename |-> <<>>]

\* the locals process_csv reads from one row of a legacy file
LegacyLocals(r) ==
    [course |-> <<>>, module |-> <<>>, section |-> <<>>, unit |-> <<>>,
     content_url |-> Get(r, "content_url"),
     content_name |-> Get(r, "content_name"),
     target_dir |-> Path(<<output_dir>>),
     content_id |-> None, formatted_name |-> <<>>, filename |-> <<>>]

RowLocals(r) == IF is_hierarchical THEN HierLocals(r) ELSE LegacyLocals(r)

\* Path.mkdir(parents=True, exist_ok=True): the folder and its ancestors exist
Mkdir(path) == dirs' = dirs \cup {SubSeq(path, 1, k) : k \in 1..Len(path)}

\* a filesystem failure of create_hierarchical_path / target_dir.mkdir
BeginRowFsError ==
    /\ ProcessCsvExcept
    /\ UNCHANGED <<entries, is_hierarchical, total, successful, failed, idx,
                   row, dirs>>

\* the head of the loop body: read the row, create its destination folder
BeginRow ==
    /\ pc = "row"
    /\ idx <= total
    /\ \/ BeginRowFsError
       \/ /\ row' = RowLocals(entries[idx])
          /\ Mkdir(RowLocals(entries[idx]).target_dir)
          /\ pc' = "check_row"
          /\ UNCHANGED batchVars
    /\ UNCHANGED <<authVars, actual_url, attempts, rowReqs, soup, dl, files,
                   issued>>
    /\ UNCHANGED convVars

\* the end of one loop iteration: its locals are dropped
NextRow ==
    /\ idx' = idx + 1
    /\ pc' = "row"
    /\ row' = NoRow
    /\ actual_url' = None
    /\ soup' = NoSoup
    /\ attempts' = <<>>
    /\ rowReqs' = {}
    /\ dl' = NoDl

\* `failed += 1; continue`
SkipRow ==
    /\ failed' = failed + 1
    /\ NextRow
    /\ UNCHANGED <<successful, issued>>

\* the record has a content URL with a numeric id in it
HasContentId(url) == url /= <<>> /\ extract_id(url) /= None

\* format_name(content_name) if content_name else f"content-{content_id}"
FormattedName(content_name, content_id) ==
    IF content_name /= <<>>
    THEN format_name(content_name)
    ELSE <<"c","o","n","t","e","n","t","-">> \o content_id

\* skip the record without a usable content URL, else name the file
CheckRow ==
    /\ pc = "check_row"
    /\ IF HasContentId(row.content_url)
       THEN LET content_id == extract_id(row.content_url)
                formatted_name == FormattedName(row.content_name, content_id)
            IN  /\ row' = [row EXCEPT !.content_id = content_id,
                                      !.formatted_name = formatted_name,
                                      !.filename =
                                          ConstructFilename(content_id,
                                                            formatted_name)]
                /\ pc' = "analyze"
                /\ UNCHANGED <<successful, failed, idx, actual_url, soup, attempts,
                               rowReqs, dl, issued>>
       ELSE SkipRow
    /\ UNCHANGED <<authVars, entries, is_hierarchical, total, batch_end,
                   fsVars>>
    /\ UNCHANGED convVars


(***************************************************************************)
(* analyze_content_page                                                    *)
(***************************************************************************)
AbsLink   == <<"https://cdn.h5p.com", "/", "e.h5p">>
SlashLink == <<"/", "download", "/", "e.h5p">>
RelLink   == <<"export", "/", "e.h5p">>

\* a <script> holding H5PIntegration: whether json.loads parses it, and per
\* entry of its contents the exportUrl (None: the entry has none)
BadScript == [valid |-> FALSE, contents |-> <<>>]
Script(contents) == [valid |-> TRUE, contents |-> contents]

\* A content page as BeautifulSoup sees it: the first match of each of the
\* three finders, and the H5PIntegration scripts in document order.
Pages ==
    { [a_href |-> NoElem, button |-> NoElem, a_class |-> NoElem,
       scripts |-> <<>>],
      [a_href |-> Elem(AbsLink, None), button |-> Elem(None, SlashLink),
       a_class |-> NoElem, scripts |-> <<Script(<<RelLink>>)>>],
      [a_href |-> NoElem, button |-> Elem(None, SlashLink),
       a_class |-> Elem(AbsLink, None), scripts |-> <<>>],
      [a_href |-> NoElem, button |-> NoElem, a_class |-> Elem(None, None),
       scripts |-> <<Script(<<None, RelLink, AbsLink>>)>>],
      [a_href |-> NoElem, button |-> NoElem, a_class |-> NoElem,
       scripts |-> <<BadScript, Script(<<None>>), Script(<<AbsLink>>)>>],
      [a_href |-> NoElem, button |-> NoElem, a_class |-> NoElem,
       scripts |-> <<Script(<< <<>> >>)>>] }

\* pattern.get('href') or pattern.get('data-url')
ElemLink(e) == IF e.href /= None /\ e.href /= <<>> THEN e.href ELSE e.data_url

\* method 1: the first of the three finders that yields a link
ScrapeLink(page) ==
    LET found == <<page.a_href, page.button, page.a_class>>
        hits  == {i \in 1..3 : /\ found[i].present
                               /\ ElemLink(found[i]) /= None
                               /\ ElemLink(found[i]) /= <<>>}
    IN  IF hits = {} THEN None
        ELSE ElemLink(found[CHOOSE i \in hits : \A j \in hits : i <= j])

\* method 2: the first exportUrl of the first H5PIntegration contents entry
\* that has one, over the scripts in document order
RECURSIVE FirstExportUrl(_)
FirstExportUrl(contents) ==
    IF contents = <<>> THEN None
    ELSE IF Head(contents) /= None THEN Head(contents)
    ELSE FirstExportUrl(Tail(contents))

RECURSIVE IntegrationUrl(_)
IntegrationUrl(scripts) ==
    IF scripts = <<>> THEN None
    ELSE IF Head(scripts).valid /\ FirstExportUrl(Head(scripts).contents) /= None
         THEN FirstExportUrl(Head(scripts).contents)
         ELSE IntegrationUrl(Tail(scripts))

\* analyze_content_page consulting the H5PIntegration block first
ResolvePage_ConfigFirst(page) ==
    IF IntegrationUrl(page.scripts) /= None THEN IntegrationUrl(page.scripts)
    ELSE ScrapeLink(page)

\* what analyze_content_page returns for a 200 page
ResolvePage(page) ==
    IF ScrapeLink(page) /= None THEN ScrapeLink(page)
    ELSE IntegrationUrl(page.scripts)

\* download_file is entered with `url`
CallDownload_NamedAfterUrl(url) ==
    /\ dl' = [NoDl EXCEPT !.url = url,
                          !.output_path = Append(row.target_dir,
                                                 <<url[Len(url)]>>),
                          !.files_at_call = files]
    /\ attempts' = Append(attempts, url)
    /\ pc' = "download_file"

CallDownload(url) ==
    /\ dl' = [NoDl EXCEPT !.url = url,
                          !.output_path = Append(row.target_dir, row.filename),
                          !.files_at_call = files]
    /\ attempts' = Append(attempts, url)
    /\ pc' = "download_file"

\* process_csv using the scraped link as it is, without rebasing it
FirstUrl_NoRebase(resolved) ==
    IF resolved /= None /\ resolved /= <<>>
    THEN resolved
    ELSE construct_download_url(row.content_id, row.formatted_name)

\* process_csv: the URL of the first download attempt
FirstUrl(resolved) ==
    IF resolved /= None /\ resolved /= <<>>
    THEN Rebase(resolved)
    ELSE construct_download_url(row.content_id, row.formatted_name)

\* analyze_content_page returned `resolved`: the first download is started
AfterAnalyze(resolved) ==
    /\ actual_url' = resolved
    /\ CallDownload(FirstUrl(resolved))

\* analyze_content_page: GET the content page and look for the export link;
\* any exception is caught and None returned
AnalyzeContentPage ==
    /\ pc = "analyze"
    /\ rowReqs' = rowReqs \cup {"PAGE"}
    /\ issued' = issued \cup {"PAGE"}
    /\ \/ \* the request raises, or the status is not 200
          /\ AfterAnalyze(None)
          /\ UNCHANGED soup
       \/ \E page \in Pages :
             /\ soup' = page
             /\ pc' = "analyze_parse"
             /\ UNCHANGED <<actual_url, attempts, dl>>
    /\ UNCHANGED <<authVars, batchVars, row, fsVars>>
    /\ UNCHANGED convVars

\* analyze_content_page on a 200 response: the page scrape, then the
\* H5PIntegration block
ParseContentPage ==
    /\ pc = "analyze_parse"
    /\ AfterAnalyze(ResolvePage(soup))
    /\ soup' = NoSoup
    /\ UNCHANGED <<authVars, batchVars, row, rowReqs, fsVars, issued>>
    /\ UNCHANGED convVars


(***************************************************************************)
(* download_file                                                           *)
(***************************************************************************)
HeadStatuses == {200, 404}
GetStatuses  == {200, 404}
OctetStream  == <<"application/octet-stream">>
ContentTypes == {OctetStream, <<"text/html">>,
                 <<"text/html", "; charset=utf-8">>}

\* 'text/html' in content_type
IsHtml(content_type) ==
    \E i \in 1..Len(content_type) : content_type[i] = "text/html"

\* download_file returns `ok`, its locals being `d`
Return(d, ok) ==
    /\ dl' = [d EXCEPT !.result = IF ok THEN "true" ELSE "false"]
    /\ pc' = "dl_return"
    /\ UNCHANGED batch_end

\* download_file without its except clause: the exception reaches process_csv
DownloadExcept_Propagates(d) ==
    /\ dl' = d
    /\ ProcessCsvExcept

\* the `except Exception` of download_file: logged, False returned
DownloadExcept(d) ==
    Return(d, FALSE)

\* download_file: Path(output_dir).mkdir(...), outside the try block
DownloadMkdir ==
    /\ pc = "download_file"
    /\ \/ \* a filesystem failure propagates to process_csv's except
          /\ ProcessCsvExcept
          /\ UNCHANGED <<dl, dirs>>
       \/ /\ Mkdir(row.target_dir)
          /\ pc' = "dl_head"
          /\ UNCHANGED <<dl, batch_end>>
    /\ UNCHANGED <<authVars, entries, is_hierarchical, total, successful,
                   failed, idx, rowVars, files, issued>>
    /\ UNCHANGED convVars

\* download_file going on to the GET whatever the HEAD probe answered
HeadDone_Ignores404(st) ==
    /\ dl' = [dl EXCEPT !.head_status = st, !.log = Append(dl.log, "HEAD")]
    /\ pc' = "dl_get"
    /\ UNCHANGED batch_end

\* download_file: the HEAD probe; 404 ends the download
HeadDone(st) ==
    LET d == [dl EXCEPT !.head_status = st, !.log = Append(dl.log, "HEAD")]
    IN  IF st = 404
        THEN Return(d, FALSE)
        ELSE /\ dl' = d
             /\ pc' = "dl_get"
             /\ UNCHANGED batch_end

DownloadHead ==
    /\ pc = "dl_head"
    /\ rowReqs' = rowReqs \cup {"HEAD"}
    /\ issued' = issued \cup {"HEAD"}
    /\ \/ \* transport failure
          DownloadExcept([dl EXCEPT !.log = Append(dl.log, "HEAD"),
                                    !.head_status = -1])
       \/ \E st \in HeadStatuses : HeadDone(st)
    /\ UNCHANGED <<authVars, loopVars, row, actual_url, soup, attempts,
                   fsVars>>
    /\ UNCHANGED convVars

\* download_file without the content type check
GetDone_NoHtmlCheck(st, content_type) ==
    LET d == [dl EXCEPT !.status = st, !.content_type = content_type,
                        !.log = Append(dl.log, "GET")]
    IN  IF st = 200
        THEN /\ dl' = d
             /\ pc' = "dl_write"
             /\ UNCHANGED batch_end
        ELSE Return(d, FALSE)

\* download_file: the response of the GET is looked at before anything is
\* written
GetDone(st, content_type) ==
    LET d == [dl EXCEPT !.status = st, !.content_type = content_type,
                        !.log = Append(dl.log, "GET")]
    IN  IF st = 200
        THEN IF IsHtml(content_type)
             THEN Return(d, FALSE)
             ELSE /\ dl' = d
                  /\ pc' = "dl_write"
                  /\ UNCHANGED batch_end
        ELSE Return(d, FALSE)

DownloadGet ==
    /\ pc = "dl_get"
    /\ rowReqs' = rowReqs \cup {"GET"}
    /\ issued' = issued \cup {"GET"}
    /\ \/ \* transport failure
          DownloadExcept([dl EXCEPT !.log = Append(dl.log, "GET"),
                                    !.status = -1])
       \/ \E st \in GetStatuses, ct \in ContentTypes : GetDone(st, ct)
    /\ UNCHANGED <<authVars, loopVars, row, actual_url, soup, attempts,
                   fsVars>>
    /\ UNCHANGED convVars

\* the file at `path` now holds `content`
WriteFile(path, content) ==
    files' = {f \in files : f.path /= path}
                \cup {[path |-> path, content |-> content]}

\* download_file: open(output_path, 'wb') and the streamed body
DownloadWrite ==
    /\ pc = "dl_write"
    /\ \/ \* open() raises: nothing is written
          /\ DownloadExcept(dl)
          /\ UNCHANGED files
       \/ \* the stream breaks after the file was opened
          /\ DownloadExcept([dl EXCEPT !.log = Append(dl.log, "OPEN")])
          /\ WriteFile(dl.output_path, "partial")
       \/ /\ Return([dl EXCEPT !.log = Append(dl.log, "OPEN")], TRUE)
          /\ WriteFile(dl.output_path, "complete")
    /\ UNCHANGED <<authVars, loopVars, rowVars, dirs, issued>>
    /\ UNCHANGED convVars

\* process_csv after download_file returned: count the record, or go on to
\* the next fallback URL
AfterDownload ==
    /\ pc = "dl_return"
    /\ IF dl.result = "true"
       THEN /\ successful' = successful + 1
            /\ NextRow
            /\ UNCHANGED failed
       ELSE IF Len(attempts) <= Len(Fallbacks(row.content_id, row.formatted_name))
       THEN /\ CallDownload(Fallbacks(row.content_id,
                                      row.formatted_name)[Len(attempts)])
            /\ UNCHANGED <<successful, failed, idx, row, actual_url, soup,
                           rowReqs>>
       ELSE /\ failed' = failed + 1
            /\ NextRow
            /\ UNCHANGED successful
    /\ UNCHANGED <<authVars, entries, is_hierarchical, total, batch_end,
                   fsVars, issued>>
    /\ UNCHANGED convVars

\* process_csv: the loop is over, the tally is logged
Summary ==
    /\ pc = "row"
    /\ idx > total
    /\ batch_end' = "summary"
    /\ pc' = "finished"
    /\ UNCHANGED <<authVars, entries, is_hierarchical, total, successful,
                   failed, idx, rowVars, dl, fsVars, issued>>
    /\ UNCHANGED convVars

Next ==
    \/ EnsureAuthenticated
    \/ TestSession
    \/ LoginGetForm
    \/ LoginPostEmail
    \/ LoginPostPassword
    \/ Main
    \/ ReadCsv
    \/ BeginRow
    \/ CheckRow
    \/ AnalyzeContentPage
    \/ ParseContentPage
    \/ DownloadMkdir
    \/ DownloadHead
    \/ DownloadGet
    \/ DownloadWrite
    \/ AfterDownload
    \/ Summary

Spec == Init /\ [][Next]_vars

(***************************************************************************)
(* A remote side that never responds                                       *)
(***************************************************************************)
\* the timeout argument of session.get, session.post and session.head: no
\* call passes one, and the session sets no default
timeout == None

\* the program points at which a request is sent
RequestPcs == {"test_session", "login", "login_email", "login_password",
               "analyze", "dl_head", "dl_get"}

\* the request sent from program point `at`
RequestAt(at) ==
    CASE at = "test_session"   -> "PROBE"
      [] at = "login"          -> "GET_LOGIN"
      [] at = "login_email"    -> "POST_EMAIL"
      [] at = "login_password" -> "POST_PASSWORD"
      [] at = "analyze"        -> "PAGE"
      [] at = "dl_head"        -> "HEAD"
      [] at = "dl_get"         -> "GET"

\* a request is sent and the remote side never responds: with no timeout the
\* call does not return
Hang ==
    /\ timeout = None
    /\ pc \in RequestPcs
    /\ pc = "login_email" => login_page.action = "absolute"
    /\ pc' = "blocked"
    /\ IF pc \in {"analyze", "dl_head", "dl_get"}
       THEN /\ rowReqs' = rowReqs \cup {RequestAt(pc)}
            /\ issued' = issued \cup {RequestAt(pc)}
            /\ dl' = IF pc = "analyze" THEN dl
                     ELSE [dl EXCEPT !.log = Append(dl.log, RequestAt(pc))]
            /\ UNCHANGED authLog
       ELSE /\ authLog' = Append(authLog, RequestAt(pc))
            /\ UNCHANGED <<rowReqs, issued, dl>>
    /\ UNCHANGED <<cookie_file, authenticated, auth_result, probe_status,
                   login_page, batchVars, row, actual_url, soup, attempts,
                   fsVars>>
    /\ UNCHANGED convVars

NextNoResponse ==
    \/ Next
    \/ Hang

SpecNoResponse == Init /\ [][NextNoResponse]_vars

(***************************************************************************)
(* process_csv on one record, given twice, from a wider set of records     *)
(***************************************************************************)
MaxNameLen == 3

\* one character of each kind format_name tells apart
NameChars == {"A", "b", "1", " ", "\t", "-", "?"}

Names == SeqsUpTo(NameChars, MaxNameLen)

\* one character of each kind format_folder_name tells apart
FolderChars == {"A", "b", " ", "\t", ".", "/", "*"}

FolderNames == SeqsUpTo(FolderChars, MaxNameLen)

CourseLabels  == {<<>>, <<"C">>, <<".", ".">>, <<"a", "/", "b">>}
ModuleLabels  == {<<>>, <<"M">>}
SectionLabels == {<<>>, <<"S", ".">>}
UnitLabels    == {<<>>, <<"U">>, <<" ">>}
RowUrls       == {UrlWithId7, UrlNoId, UrlWideId}

RowCsvFiles ==
    {[fieldnames |-> HierFields, rows |-> <<r, r>>] :
        r \in [course : CourseLabels, module : ModuleLabels,
               section : SectionLabels, unit : UnitLabels,
               content_url : RowUrls]}
    \cup
    {[fieldnames |-> HierFields, rows |-> <<r, r>>] :
        r \in [course : FolderNames, module : {<<"M">>}, section : {<<>>},
               unit : {<<"U">>}, content_url : RowUrls]}
    \cup
    {[fieldnames |-> LegacyFields, rows |-> <<r, r>>] :
        r \in [content_name : Names, content_url : RowUrls]}

\* main() about to call process_csv, the stored session having been valid
RowsInit ==
    /\ pc = "process_csv"
    /\ cookie_file = "valid"
    /\ authenticated = TRUE
    /\ auth_result = "true"
    /\ probe_status = 200
    /\ login_page = NoPage
    /\ authLog = <<"PROBE">>
    /\ entries = <<>>
    /\ is_hierarchical = FALSE
    /\ total = 0 /\ successful = 0 /\ failed = 0 /\ idx = 0
    /\ batch_end = "none"
    /\ row = NoRow
    /\ actual_url = None
    /\ soup = NoSoup
    /\ attempts = <<>>
    /\ rowReqs = {}
    /\ dl = NoDl
    /\ dirs = {}
    /\ files = {}
    /\ issued = {}
    /\ rows = <<>>
    /\ row_index = 0
    /\ last_course = <<>> /\ last_module = <<>>
    /\ last_section = <<>> /\ last_subsection = <<>>
    /\ output_rows = <<>>
    /\ h5p_count = 0 /\ skipped_zip = 0 /\ skipped_other = 0

ReadRows == ReadCsvFrom(RowCsvFiles)

\* process_csv up to the first request of a record
RowsNext ==
    \/ ReadRows
    \/ BeginRow
    \/ CheckRow
    \/ Summary

SpecRows == RowsInit /\ [][RowsNext]_vars

(***************************************************************************)
(* convert_csv.py: the course planner sheet flattened into the records     *)
(* process_csv reads.  A sheet is a sequence of rows, a row a sequence of  *)
(* cells, a cell a string.                                                 *)
(***************************************************************************)
MaxDataRows == 2

\* str.lower() on the tokens of the sheet's URLs
LowerUrlTok(c) ==
    IF c = "https://H5P.COM" THEN "https://h5p.com"
    ELSE IF c = ".ZIP" THEN ".zip"
    ELSE LowerTok(c)

\* bool(re.search(r'h5p\.com/content/', url, re.IGNORECASE))
is_h5p_url(url) ==
    \E k \in 1..(Len(url) - 1) :
        /\ LowerUrlTok(url[k]) = "https://h5p.com"
        /\ LowerUrlTok(url[k + 1]) = "/content/"

\* url.lower().endswith('.zip') or '.zip' in url.lower()
IsZipUrl(url) == \E k \in 1..Len(url) : LowerUrlTok(url[k]) = ".zip"

\* ['course', 'module', 'section', 'unit', 'content_url']
OutputHeader ==
    <<<<"course">>, <<"module">>, <<"section">>, <<"unit">>, <<"content_url">>>>

H5pCell      == <<"https://h5p.com", "/content/", "7">>
H5pCellUpper == <<" ", "https://H5P.COM", "/content/", "8", " ">>
ZipCell      == <<"https://files.example", "/", "a", ".ZIP">>
OtherCell    == <<"https://h5p.com", "/", "a">>

\* rows 1-3 of the sheet: titles, laid out like a data row
HeaderRows ==
    <<  <<<<>>, <<"P","l","a","n">>, <<>>, <<>>, <<"T">>, <<>>, H5pCell>>,
        <<<<>>, <<"Y">>, <<"Z">>, <<>>, <<>>, <<>>, <<>>>>,
        <<<<"#">>, <<"C","o","u","r","s","e">>, <<"M","o","d","u","l","e">>,
          <<"S","e","c">>, <<"S","u","b">>, <<"U","n","i","t">>, <<"U","R","L">>>> >>

\* rows 4 onward
DataRows ==
    { <<<<"1">>, c, m, <<"X">>, ss, <<"U">>, u>> :
        c \in {<<>>, <<"C">>, <<"D">>}, m \in {<<>>, <<"M">>},
        ss \in {<<>>, <<"S">>}, u \in {<<>>, H5pCell} }
    \cup
    { <<<<"2">>, <<" ", "E", " ">>, <<" ">>, <<>>, <<"\t", "R">>, <<" ", "V">>, u>> :
        u \in {<<" ">>, H5pCellUpper, ZipCell, OtherCell} }
    \cup
    { <<<<"3">>, <<"F">>, <<"N">>>>, <<<<"4">>, <<"G">>, <<>>, <<>>, <<"Q">>, <<"W">>>> }

InputSheets ==
    {SubSeq(HeaderRows, 1, k) : k \in 0..2}
    \cup
    {HeaderRows \o d : d \in SeqsUpTo(DataRows, MaxDataRows)}

ConvInit ==
    /\ pc = "convert_csv"
    /\ cookie_file = None
    /\ authenticated = FALSE
    /\ auth_result = "pending"
    /\ probe_status = 0
    /\ login_page = NoPage
    /\ authLog = <<>>
    /\ entries = <<>>
    /\ is_hierarchical = FALSE
    /\ total = 0 /\ successful = 0 /\ failed = 0 /\ idx = 0
    /\ batch_end = "none"
    /\ row = NoRow
    /\ actual_url = None
    /\ soup = NoSoup
    /\ attempts = <<>>
    /\ rowReqs = {}
    /\ dl = NoDl
    /\ dirs = {}
    /\ files = {}
    /\ issued = {}
    /\ rows = <<>>
    /\ row_index = 0
    /\ last_course = <<>> /\ last_module = <<>>
    /\ last_section = <<>> /\ last_subsection = <<>>
    /\ output_rows = <<>>
    /\ h5p_count = 0 /\ skipped_zip = 0 /\ skipped_other = 0

downloaderVars == <<authVars, batchVars, rowVars, dl, fsVars, issued>>

\* convert_csv up to the loop: the input is missing, or it is read whole
ConvRead ==
    /\ pc = "convert_csv"
    /\ \/ /\ pc' = "convert_done"
          /\ UNCHANGED convVars
       \/ \E sheet \in InputSheets :
            /\ rows' = sheet
            /\ output_rows' = <<OutputHeader>>
            /\ last_course' = <<>> /\ last_module' = <<>>
            /\ last_section' = <<>> /\ last_subsection' = <<>>
            /\ h5p_count' = 0 /\ skipped_zip' = 0 /\ skipped_other' = 0
            /\ row_index' = 4
            /\ pc' = "convert_row"
    /\ UNCHANGED downloaderVars

\* row[k].strip()
Stripped_cell(r, k) == Strip(r[k + 1], Whitespace)

\* the value a column leaves in its last_* variable
CarryForward(r, k, last) ==
    IF Len(r) > k /\ Stripped_cell(r, k) /= <<>> THEN Stripped_cell(r, k) ELSE last

\* one turn of `for i, row in enumerate(rows[3:], start=4)`
ConvRow ==
    /\ pc = "convert_row"
    /\ row_index <= Len(rows)
    /\ LET r == rows[row_index] IN
        IF Len(r) < 7 \/ Stripped_cell(r, 6) = <<>>
        THEN UNCHANGED <<last_course, last_module, last_section, last_subsection,
                         output_rows, h5p_count, skipped_zip, skipped_other>>
        ELSE
            LET course     == CarryForward(r, 1, last_course)
                module     == CarryForward(r, 2, last_module)
                section    == CarryForward(r, 3, last_section)
                subsection == CarryForward(r, 4, last_subsection)
                unit       == Stripped_cell(r, 5)
                url        == Stripped_cell(r, 6)
            IN  /\ last_course' = course
                /\ last_module' = module
                /\ last_section' = section
                /\ last_subsection' = subsection
                /\ IF is_h5p_url(url)
                   THEN /\ output_rows' =
                              Append(output_rows, <<course, module, subsection, unit, url>>)
                        /\ h5p_count' = h5p_count + 1
                        /\ UNCHANGED <<skipped_zip, skipped_other>>
                   ELSE IF IsZipUrl(url)
                   THEN /\ skipped_zip' = skipped_zip + 1
                        /\ UNCHANGED <<output_rows, h5p_count, skipped_other>>
                   ELSE /\ skipped_other' = skipped_other + 1
                        /\ UNCHANGED <<output_rows, h5p_count, skipped_zip>>
    /\ row_index' = row_index + 1
    /\ UNCHANGED <<pc, rows, downloaderVars>>

\* the loop is over: the rows are written and the tallies reported
ConvWrite ==
    /\ pc = "convert_row"
    /\ row_index > Len(rows)
    /\ pc' = "convert_done"
    /\ UNCHANGED <<convVars, downloaderVars>>

ConvNext ==
    \/ ConvRead
    \/ ConvRow
    \/ ConvWrite

SpecConvert == ConvInit /\ [][ConvNext]_vars


(***************************************************************************)
(* Properties                                                              *)
(***************************************************************************)
\* the statements of one loop iteration after its folder was created, and
\* those of the download_file call it makes
RecoverablePcs == {"check_row", "analyze", "analyze_parse", "dl_head",
                   "dl_get", "dl_write", "dl_return"}
LoopPcs == RecoverablePcs \cup {"row", "download_file"}

\* C1: whatever the URL check, the resolution, a HEAD, a GET, the write or the
\* fallback chain of record idx comes to (skip, absent, transport exception,
\* failure of every alternate), process_csv stays in its loop, on the same
\* record or on the next one, and never leaves through its except handler;
\* the summary is only reached once the loop went past the last record.
C1_BatchContinues ==
    [][ /\ pc \in RecoverablePcs =>
            /\ batch_end' = "none"
            /\ pc' \in LoopPcs
            /\ idx' = IF pc' = "row" THEN idx + 1 ELSE idx
            /\ successful' + failed' = idx' - 1
        /\ batch_end' = "summary" => idx' = total' + 1 ]_vars

C1_Witness ==
    /\ pc = "analyze"
    /\ idx = 2
    /\ failed = 1
    /\ issued = {"PAGE", "HEAD", "GET"}

\* C2: a filesystem failure while the destination folder of a record is
\* created (at the head of the loop body, or at the start of download_file)
\* does not end the batch: process_csv stays in its loop.
C2_FolderFailureIsPerRecord ==
    [][ ((pc = "row" /\ idx <= total) \/ pc = "download_file") =>
            (batch_end' = "none" /\ pc' \in LoopPcs) ]_vars

\* C3: whenever the loop is at its head the records before idx were counted
\* once each (successful + failed = idx - 1), and a run that read the record
\* stream ends with the tally reported and successful + failed = total, the
\* number of records read.
C3_TallyAccounting ==
    /\ pc = "row" => successful + failed = idx - 1
    /\ (pc = "finished" /\ idx >= 1) =>
           /\ batch_end = "summary"
           /\ total = Len(entries)
           /\ successful + failed = total

\* the content URL of entry i, as process_csv reads it
ContentUrlOf(i) == Get(entries[i], "content_url")

\* C4: a record whose content URL is empty or holds no numeric id is only
\* ever taken to the URL check and from there to the next record, counted as
\* failed, with no request issued and no download attempted for it.
C4_SkippedNeverAttempted ==
    [][ (pc \in {"row", "check_row"} /\ idx <= total
         /\ ~HasContentId(ContentUrlOf(idx))) =>
            /\ pc' \in {"check_row", "row"}
            /\ rowReqs' = {} /\ attempts' = <<>> /\ issued' = issued
            /\ pc' = "row" => (failed' = failed + 1 /\ idx' = idx + 1
                               /\ successful' = successful) ]_vars

\* C5: once ensure_authenticated returned False no record is processed: the
\* record stream is never read and no content page, HEAD or GET request is
\* issued in the run.
C5_AuthFailureStopsRun ==
    auth_result = "false" =>
        /\ pc \in {"main", "finished"}
        /\ issued = {}
        /\ idx = 0 /\ batch_end = "none" /\ attempts = <<>>

C5_Witness ==
    /\ auth_result = "false"
    /\ pc = "finished"
    /\ authLog = <<"GET_LOGIN", "POST_EMAIL", "POST_PASSWORD">>

\* the path prefixes of the alternative export URLs, in the order of the list
AltPrefixOrder == <<"/wp-content/uploads/h5p/exports/", "/h5p/exports/",
                    "/export/", "/content/">>

\* C6: a download attempt after the first one of a record is started only
\* when the attempt before it returned failure; the k-th alternate attempted
\* is the k-th pattern of the fixed list; never more than five attempts are
\* made for one record.
C6_FallbackChain ==
    [][ (attempts' /= attempts /\ attempts' /= <<>>) =>
            /\ Len(attempts') = Len(attempts) + 1
            /\ SubSeq(attempts', 1, Len(attempts)) = attempts
            /\ Len(attempts') <= 5
            /\ attempts /= <<>> =>
                  /\ pc = "dl_return" /\ dl.result = "false"
                  /\ attempts'[Len(attempts')][1] = base_url[1]
                  /\ attempts'[Len(attempts')][2] = AltPrefixOrder[Len(attempts)]
                  /\ \A k \in 1..Len(attempts) :
                        attempts[k] /= attempts'[Len(attempts')] ]_vars

C6_Witness ==
    /\ pc = "dl_return"
    /\ Len(attempts) = 5
    /\ dl.result = "true"

\* the URL <base>/media/exports/<id>/<formattedName>-<id>.h5p of the record
ConstructedUrl ==
    <<"https://h5p.com", "/media/exports/">> \o row.content_id \o <<"/">>
        \o row.formatted_name \o <<"-">> \o row.content_id \o <<".h5p">>

\* C7: the first download attempt of a record targets the constructed URL
\* when analyze_content_page returned nothing, and otherwise the URL it
\* returned, put under the base URL when it is relative; in that case the
\* constructed URL is not attempted at all.
C7_FirstAttemptTarget ==
    attempts /= <<>> =>
        IF actual_url \in {None, <<>>}
        THEN attempts[1] = ConstructedUrl
        ELSE /\ attempts[1] =
                   IF actual_url[1] \in {"https://h5p.com", "https://cdn.h5p.com"}
                   THEN actual_url
                   ELSE IF actual_url[1] = "/"
                   THEN <<"https://h5p.com">> \o actual_url
                   ELSE <<"https://h5p.com", "/">> \o actual_url
             /\ \A k \in 1..Len(attempts) : attempts[k] /= ConstructedUrl

C7_Witness ==
    /\ pc = "dl_return"
    /\ actual_url = RelLink
    /\ attempts = <<<<"https://h5p.com", "/", "export", "/", "e.h5p">>>>

\* the download that just returned had a 200 response declared as HTML
HtmlDownloadReturned ==
    /\ pc = "dl_return"
    /\ dl.status = 200
    /\ \E i \in 1..Len(dl.content_type) : dl.content_type[i] = "text/html"

C9_HeadBeforeGet ==
    /\ \A i \in 1..Len(dl.log) :
          dl.log[i] \in {"GET", "OPEN"} => (i > 1 /\ dl.log[1] = "HEAD")
    /\ dl.head_status = 404 =>
          /\ pc = "dl_return" /\ dl.result = "false"
          /\ dl.log = <<"HEAD">>
          /\ files = dl.files_at_call
    /\ (pc = "dl_return" /\ dl.head_status \notin {0, -1, 404}) =>
          (Len(dl.log) >= 2 /\ dl.log[2] = "GET")

C9_Witness ==
    /\ pc = "dl_return"
    /\ dl.head_status = 404
    /\ \E f \in files : f.path = dl.output_path

\* C10: when the stored session loaded and the probe answered 200,
\* ensure_authenticated returns True and the probe is the only request of
\* the authentication: the login form is not fetched and neither the
\* identifier nor the credential is posted.
C10_ValidSessionSkipsLogin ==
    probe_status = 200 =>
        /\ authenticated /\ auth_result = "true"
        /\ authLog = <<"PROBE">>
        /\ pc \notin {"login", "login_email", "login_password"}

C10_Witness ==
    /\ probe_status = 200
    /\ cookie_file = "valid"
    /\ pc = "check_row"

LoginPcs == {"login", "login_email", "login_password"}

Count(log, e) == Cardinality({i \in 1..Len(log) : log[i] = e})

\* C11: a store that is missing or does not unpickle sends
\* ensure_authenticated to login() with no request issued, the probe
\* included; a probe that answers another status than 200 or raises sends it
\* to login() too, with no result decided yet.  Once ensure_authenticated
\* has returned without a probe answering 200, the login form was fetched
\* exactly once and the result is True or False, True exactly when login()
\* set the authenticated flag.
C11_AbsentSessionLogsIn ==
    [][ /\ (pc = "ensure_authenticated"
               /\ cookie_file \in {"missing", "corrupt"}) =>
              (pc' = "login" /\ authLog' = <<>> /\ probe_status' = 0)
        /\ (pc = "test_session" /\ probe_status' /= 200) =>
              (pc' = "login" /\ auth_result' = "none" /\ ~authenticated')
        /\ (pc' \notin LoginPcs \cup {"ensure_authenticated", "test_session"}
               /\ probe_status' /= 200) =>
              /\ Count(authLog', "GET_LOGIN") = 1
              /\ Count(authLog', "PROBE") = IF probe_status' = 0 THEN 0 ELSE 1
              /\ auth_result' \in {"true", "false"}
              /\ auth_result' = "true" <=> authenticated'
      ]_vars

C11_Witness ==
    /\ cookie_file = "corrupt"
    /\ probe_status = 0
    /\ authLog = <<"GET_LOGIN", "POST_EMAIL", "POST_PASSWORD", "SAVE">>
    /\ auth_result = "true"
    /\ pc = "check_row"

IsFederated(url) ==
    \E i \in 1..Len(url) : url[i] \in {"sso", "SSO", "saml", "SAML"}

\* C12: the email is posted only for a login page that answered 200 with a
\* form and a token, and the password only for a response to the email POST
\* whose URL names neither SSO nor SAML and whose markup has a password
\* field.  A login page without form or token ends login() in False with no
\* POST; a federated URL or a missing password field ends it in False with
\* the form fetched once, the email posted once and no password POST.
C12_SecretOnlyAfterChecks ==
    /\ pc = "login_email" =>
          /\ login_page.step = 1 /\ login_page.status = 200
          /\ login_page.form /\ login_page.token
          /\ authLog \in {<<"GET_LOGIN">>, <<"PROBE", "GET_LOGIN">>}
    /\ pc = "login_password" =>
          /\ login_page.step = 2
          /\ ~IsFederated(login_page.url) /\ login_page.password
          /\ authLog \in {<<"GET_LOGIN", "POST_EMAIL">>,
                          <<"PROBE", "GET_LOGIN", "POST_EMAIL">>}
    /\ Count(authLog, "POST_PASSWORD") > 0 =>
          /\ login_page.step \in {2, 3}
          /\ login_page.step = 2 =>
                (~IsFederated(login_page.url) /\ login_page.password)
    /\ (login_page.step = 1 /\ pc /= "login_email"
           /\ ~(login_page.form /\ login_page.token)) =>
          /\ auth_result = "false"
          /\ Count(authLog, "POST_EMAIL") = 0
          /\ Count(authLog, "POST_PASSWORD") = 0
    /\ (login_page.step = 2 /\ login_page.status = 200
           /\ (IsFederated(login_page.url) \/ ~login_page.password)) =>
          /\ auth_result = "false"
          /\ Count(authLog, "GET_LOGIN") = 1
          /\ Count(authLog, "POST_EMAIL") = 1
          /\ Count(authLog, "POST_PASSWORD") = 0

C12_Witness ==
    /\ login_page.step = 2
    /\ login_page.url = SamlUrl
    /\ login_page.password
    /\ auth_result = "false"
    /\ pc = "finished"

NamesLoginPage(url) ==
    \E i \in 1..Len(url) : url[i] \in {"login", "Login", "LOGIN"}

\* C13: once login() has returned, its result is True exactly when the
\* password POST was answered, with status 200 and a final URL that does not
\* name the login page.  save_cookies is called at most once, as the last
\* act of a login() that returns True, and the store is never written by a
\* login() that returns False.
C13_AuthenticatedIffVerified ==
    [][ /\ (Count(authLog', "GET_LOGIN") > 0 /\ pc' \notin LoginPcs) =>
              (auth_result' = "true" <=>
                  /\ login_page'.step = 3
                  /\ login_page'.status = 200
                  /\ ~NamesLoginPage(login_page'.url))
        /\ Count(authLog', "SAVE") > 0 =>
              /\ auth_result' = "true" /\ authenticated'
              /\ Count(authLog', "SAVE") = 1
              /\ Len(authLog') >= 4
              /\ SubSeq(authLog', Len(authLog') - 3, Len(authLog')) =
                    <<"GET_LOGIN", "POST_EMAIL", "POST_PASSWORD", "SAVE">>
        /\ cookie_file' /= cookie_file =>
              /\ pc = "login_password"
              /\ auth_result' = "true"
              /\ cookie_file' = "valid"
      ]_vars

C13_Witness ==
    /\ login_page.step = 3
    /\ login_page.status = 200
    /\ login_page.url = LoginUrlUc
    /\ auth_result = "false"
    /\ cookie_file = "missing"
    /\ pc = "finished"

\* C14: a login() that has sent its first request is either at one of its
\* steps, able to take it, or has returned with the result True or the
\* result False, the authenticated flag set to match.  Each of GET login
\* form, POST email and POST password is issued at most once in a run, and a
\* step whose request raised ends login() in False.
C14_LoginTerminatesOnce ==
    /\ \A e \in {"GET_LOGIN", "POST_EMAIL", "POST_PASSWORD"} :
          Count(authLog, e) <= 1
    /\ pc \in LoginPcs =>
          /\ auth_result = "none"
          /\ ENABLED (LoginGetForm \/ LoginPostEmail \/ LoginPostPassword)
    /\ (Count(authLog, "GET_LOGIN") > 0 /\ pc \notin LoginPcs) =>
          /\ auth_result \in {"true", "false"}
          /\ auth_result = "true" <=> authenticated
    /\ login_page.status = -1 =>
          /\ auth_result = "false" /\ ~authenticated
          /\ pc \in {"main", "finished"}
          /\ authLog[Len(authLog)] =
                CASE login_page.step = 1 -> "GET_LOGIN"
                  [] login_page.step = 2 -> "POST_EMAIL"
                  [] login_page.step = 3 -> "POST_PASSWORD"

\* C15: no request leaves the run waiting for ever: in every state in which
\* the run has not finished, the program can take a step of its own.
C15_RunNeverBlocks ==
    pc /= "finished" => ENABLED Next

Untitled == <<"u","n","t","i","t","l","e","d">>

FirstNonEmpty(cands) ==
    cands[CHOOSE i \in 1..Len(cands) :
              cands[i] /= <<>> /\ \A j \in 1..(i - 1) : cands[j] = <<>>]

Stripped(r, key) ==
    IF key \in DOMAIN r THEN Strip(r[key], {" ", "\t"}) ELSE <<>>

\* the labels the content name of record r is derived from: unit, section,
\* module, a legacy record having content_name for unit and the rest empty
NameLabels(r) ==
    IF is_hierarchical
    THEN <<Stripped(r, "unit"), Stripped(r, "section"), Stripped(r, "module")>>
    ELSE <<Stripped(r, "content_name"), <<>>, <<>> >>

\* C16, as claimed: for every record whose URL has an id, hierarchical or
\* legacy, the content name is non-empty, is the first non-empty of unit,
\* section, module and the placeholder 'untitled', and the file name is built
\* from its URL-safe form.
C16_ContentNameNeverEmpty ==
    pc = "analyze" =>
        /\ row.content_name /= <<>>
        /\ row.content_name = FirstNonEmpty(NameLabels(entries[idx]) \o <<Untitled>>)
        /\ row.formatted_name = format_name(row.content_name)

\* C16, amended: for a hierarchical record the content name is non-empty
\* and is the first non-empty of unit, section, module and 'untitled'; for a
\* legacy record it is content_name, and when that is empty the file name is
\* built from 'content-<id>' and not from a placeholder name.
C16_ContentNameByFormat ==
    pc = "analyze" =>
        LET labels == NameLabels(entries[idx])
        IN  /\ is_hierarchical =>
                  /\ row.content_name /= <<>>
                  /\ row.content_name = FirstNonEmpty(labels \o <<Untitled>>)
            /\ ~is_hierarchical => row.content_name = labels[1]
            /\ row.formatted_name =
                  IF row.content_name /= <<>>
                  THEN format_name(row.content_name)
                  ELSE <<"c","o","n","t","e","n","t","-">> \o row.content_id
            /\ row.filename = row.formatted_name \o <<"-">> \o row.content_id
                                 \o <<".h5p">>

C16_Witness ==
    /\ ~is_hierarchical
    /\ pc = "analyze"
    /\ entries[idx].content_name = <<" ", "\t">>
    /\ row.content_name = <<>>
    /\ row.formatted_name = <<"c","o","n","t","e","n","t","-","7">>

\* the hierarchical record a legacy record stands for
AsHierarchical(r) ==
    [course |-> <<>>, module |-> <<>>, section |-> <<>>,
     unit |-> r.content_name, content_url |-> r.content_url]

\* C17, as claimed: a file whose header has neither course nor module is
\* read as legacy, and every legacy record gets the destination folder, the
\* id and the file name that the hierarchical record with empty course,
\* module and section and unit = content_name gets, and is skipped exactly
\* when that record is.
C17_LegacyAsHierarchical ==
    (entries /= <<>> /\ DOMAIN entries[1] \cap {"course", "module"} = {}) =>
        /\ ~is_hierarchical
        /\ pc \in {"check_row", "analyze"} =>
              LET h == HierLocals(AsHierarchical(entries[idx]))
              IN  /\ row.target_dir = h.target_dir
                  /\ row.target_dir = <<output_dir>>
                  /\ row.content_url = h.content_url
                  /\ pc = "analyze" =>
                        /\ row.content_id = extract_id(h.content_url)
                        /\ row.formatted_name =
                              FormattedName(h.content_name, row.content_id)
                        /\ row.filename =
                              ConstructFilename(row.content_id,
                                  FormattedName(h.content_name, row.content_id))

\* C17, amended: the same, for legacy records whose content_name is not
\* empty; with an empty content_name the folder and the id are still those
\* of the hierarchical record, but the file is named content-<id>-<id>.h5p
\* where the hierarchical record's is untitled-<id>.h5p.
C17_LegacyAsHierarchicalIfNamed ==
    (entries /= <<>> /\ DOMAIN entries[1] \cap {"course", "module"} = {}) =>
        /\ ~is_hierarchical
        /\ pc \in {"check_row", "analyze"} =>
              LET h == HierLocals(AsHierarchical(entries[idx]))
                  n == Stripped(entries[idx], "content_name")
                  hname == FormattedName(h.content_name, row.content_id)
              IN  /\ row.target_dir = h.target_dir
                  /\ row.target_dir = <<output_dir>>
                  /\ row.content_url = h.content_url
                  /\ pc = "analyze" =>
                        /\ row.content_id = extract_id(h.content_url)
                        /\ n /= <<>> =>
                              /\ row.formatted_name = hname
                              /\ row.filename =
                                    ConstructFilename(row.content_id, hname)
                        /\ n = <<>> =>
                              /\ row.formatted_name =
                                    <<"c","o","n","t","e","n","t","-">>
                                        \o row.content_id
                              /\ hname = Untitled

C17_Witness ==
    /\ pc = "analyze"
    /\ ~is_hierarchical
    /\ entries[idx].content_name = <<" ", "A", "b">>
    /\ row.filename = <<"a", "b", "-", "7", ".h5p">>
    /\ row.target_dir = <<output_dir>>

DownloadPcs == {"download_file", "dl_head", "dl_get", "dl_write", "dl_return"}

\* <destinationFolder>/<urlSafeName>-<contentId>.h5p of record r
DestinationOf(r) ==
    Append(r.target_dir,
           r.formatted_name \o <<"-">> \o r.content_id \o <<".h5p">>)

\* <root>/<course>/<module>/<section>, a level without a name left out
FolderOf(r) ==
    <<output_dir>>
        \o SelectSeq(<<format_folder_name(r.course),
                       format_folder_name(r.module),
                       format_folder_name(r.section)>>, IsNonEmpty)

C19_BuildPath ==
    [][ (is_hierarchical /\ pc = "row" /\ pc' = "check_row") =>
            LET r == entries[idx]
                forms == <<format_folder_name(Stripped(r, "course")),
                           format_folder_name(Stripped(r, "module")),
                           format_folder_name(Stripped(r, "section"))>>
                kept == {k \in 1..3 : forms[k] /= <<>>}
                path == row'.target_dir
            IN  /\ path[1] = output_dir
                /\ Len(path) = 1 + Cardinality(kept)
                /\ \A k \in kept :
                      path[1 + Cardinality({j \in kept : j <= k})] = forms[k]
                /\ (\A k \in 1..3 : Stripped(r, <<"course", "module",
                                                   "section">>[k]) = <<>>)
                      => path = <<output_dir>>
                /\ path \in dirs'
                /\ path \in dirs => dirs' = dirs
                /\ (idx > 1 /\ entries[idx - 1] = r) => path \in dirs
      ]_vars

C19_Witness ==
    /\ pc = "check_row"
    /\ idx = 2
    /\ is_hierarchical
    /\ entries[1] = entries[2]
    /\ entries[2].course = <<"a", "/", "b">>
    /\ row.target_dir = <<output_dir, <<"a", "_", "b">>, <<"M">>, <<"S">> >>

\* the name of record r as the file has it
RawName(r) == IF "content_name" \in DOMAIN r THEN r.content_name ELSE r.unit

\* C20: format_name(n) consists of characters of [a-z0-9-] only and
\* format_name(format_name(n)) = format_name(n), for every name n of the
\* file and for the formatted name process_csv computed from it.
C20_UrlSafeIdempotent ==
    /\ \A i \in 1..Len(entries) :
          LET n == RawName(entries[i])
          IN  /\ \A k \in 1..Len(format_name(n)) :
                    format_name(n)[k] \in UrlSafeChars
              /\ format_name(format_name(n)) = format_name(n)
    /\ (pc = "analyze" /\ row.content_name /= <<>>) =>
          /\ \A k \in 1..Len(row.formatted_name) :
                row.formatted_name[k] \in UrlSafeChars
          /\ format_name(row.formatted_name) = row.formatted_name

C20_Witness ==
    /\ pc = "analyze"
    /\ ~is_hierarchical
    /\ entries[idx].content_name = <<"A", "\t", "?">>
    /\ row.formatted_name = <<"a", "-">>

ForbiddenInFolder == {"<", ">", ":", "\"", "/", "\\", "|", "?", "*"}

\* the requirement of C21 on one folder-safe name f
IsFolderSafe(f) ==
    /\ \A k \in 1..Len(f) : f[k] \notin ForbiddenInFolder
    /\ f /= <<>> => (f[1] \notin {" ", "."} /\ f[Len(f)] \notin {" ", "."})

\* C21: for every label n of the file, format_folder_name(n) has none of
\* the characters < > : " / \ | ? * and neither begins nor ends with a space
\* or a period; when n itself neither begins nor ends with white space or a
\* period, format_folder_name(n) is n with each of these characters replaced
\* by an underscore and every other character, its case included, kept.  The
\* same holds of every segment create_hierarchical_path put under the root.
C21_FolderSafe ==
    /\ \A i \in 1..Len(entries) : \A key \in {"course", "module", "section"} :
          key \in DOMAIN entries[i] =>
              LET n == entries[i][key]
                  f == format_folder_name(n)
              IN  /\ IsFolderSafe(f)
                  /\ (n /= <<>> /\ n[1] \notin {" ", "\t", "."}
                         /\ n[Len(n)] \notin {" ", "\t", "."}) =>
                        /\ Len(f) = Len(n)
                        /\ \A k \in 1..Len(n) :
                              f[k] = IF n[k] \in ForbiddenInFolder THEN "_"
                                     ELSE n[k]
    /\ (is_hierarchical /\ pc \in {"check_row", "analyze"}) =>
          \A k \in 2..Len(row.target_dir) : IsFolderSafe(row.target_dir[k])

C21_Witness ==
    /\ is_hierarchical
    /\ pc = "analyze"
    /\ entries[idx].course = <<".", "/", " ">>
    /\ row.target_dir = <<output_dir, <<"_">>, <<"M">> >>

\* the target of a matched element: its href, else its data-url
TargetOf(e) ==
    IF ~e.present THEN None
    ELSE IF e.href \notin {None, <<>>} THEN e.href
    ELSE e.data_url

\* the export URLs of the integration blocks that parse, as pairs
\* <<script, entry>> in document order
ExportUrlsAt(scripts) ==
    UNION {{<<i, j>> : j \in {j \in 1..Len(scripts[i].contents) :
                                 /\ scripts[i].valid
                                 /\ scripts[i].contents[j] /= None}} :
           i \in 1..Len(scripts)}

Earlier(p, q) == p[1] < q[1] \/ (p[1] = q[1] /\ p[2] <= q[2])

\* C22: on a 200 page analyze_content_page returns the target of the first
\* of the matchers (anchor by href, button by data-url, anchor by class), in
\* this order, that yields a target; when none of the three yields one it
\* returns the first export URL of the first integration block that parses
\* and has one, and None when there is none.  A page that was not answered
\* with 200 gives None.
C22_FirstMatcherWins ==
    [][ /\ (pc = "analyze" /\ pc' /= "analyze_parse") => actual_url' = None
        /\ pc = "analyze_parse" =>
              LET m == <<soup.a_href, soup.button, soup.a_class>>
                  hits == {k \in 1..3 : TargetOf(m[k]) \notin {None, <<>>}}
                  urls == ExportUrlsAt(soup.scripts)
              IN  /\ \A k \in hits :
                        (\A j \in hits : k <= j) => actual_url' = TargetOf(m[k])
                  /\ (hits = {} /\ urls /= {}) =>
                        \A p \in urls :
                            (\A q \in urls : Earlier(p, q)) =>
                                actual_url' = soup.scripts[p[1]].contents[p[2]]
                  /\ (hits = {} /\ urls = {}) => actual_url' = None
      ]_vars

C22_Witness ==
    /\ pc = "download_file"
    /\ actual_url = RelLink
    /\ rowReqs = {"PAGE"}
    /\ soup = NoSoup

\* the files at path `path` among `fs`
FilesAt(fs, path) == {f \in fs : f.path = path}

\* C23: when download_file has returned False, the file at its output path
\* is what it was when download_file was called (absent, or with the same
\* content); and once the summary is logged there are no more files than
\* records counted successful, each of them complete.
C23_FailureLeavesFileUntouched ==
    /\ (pc = "dl_return" /\ dl.result = "false") =>
          FilesAt(files, dl.output_path) =
              FilesAt(dl.files_at_call, dl.output_path)
    /\ batch_end = "summary" =>
          /\ Cardinality({f.path : f \in files}) <= successful
          /\ \A f \in files : f.content = "complete"

\* the destination folder is the root plus at most three segments, none
\* empty, '.' or '..' and none with a path separator in it
FolderInsideRoot(dir) ==
    /\ dir[1] = output_dir
    /\ Len(dir) <= 4
    /\ \A k \in 2..Len(dir) :
          /\ dir[k] \notin {<<>>, <<".">>, <<".", ".">>}
          /\ \A j \in 1..Len(dir[k]) : dir[k][j] \notin {"/", "\\"}

AsciiSafe ==
    {"a","b","c","d","e","f","g","h","i","j","k","l","m","n","o","p","q","r",
     "s","t","u","v","w","x","y","z","0","1","2","3","4","5","6","7","8","9",
     "-"}

\* C24, as claimed: for every record the destination folder is inside the
\* root as FolderInsideRoot says, and the file name is characters of
\* [a-z0-9-] followed by '.h5p'.
C24_PathsInsideRoot ==
    /\ pc \in {"check_row", "analyze"} => FolderInsideRoot(row.target_dir)
    /\ pc = "analyze" =>
          /\ row.filename[Len(row.filename)] = ".h5p"
          /\ \A k \in 1..(Len(row.filename) - 1) : row.filename[k] \in AsciiSafe

\* C24, amended: the folder is inside the root as claimed, and the file name
\* is <name>-<id>.h5p, the id being the non-empty run of decimal digits found
\* in the content URL, which are not all of 0-9 when the URL's are not, and
\* the name having only characters of [a-z0-9-] and, when it is built from
\* the id, digits of the id.
C24_PathsInsideRootAnyDigits ==
    /\ pc \in {"check_row", "analyze"} => FolderInsideRoot(row.target_dir)
    /\ pc = "analyze" =>
          LET n == Len(row.filename)
              d == Len(row.content_id)
          IN  /\ d >= 1 /\ n >= d + 2
              /\ row.filename[n] = ".h5p"
              /\ SubSeq(row.filename, n - d, n - 1) = row.content_id
              /\ \A k \in 1..d :
                    /\ row.content_id[k]
                          \in {"0","1","2","3","4","5","6","7","8","9",
                               "<U+0663>"}
                    /\ \E j \in 1..Len(row.content_url) :
                          row.content_url[j] = row.content_id[k]
              /\ row.filename[n - d - 1] = "-"
              /\ \A k \in 1..(n - d - 1) :
                    \/ row.filename[k] \in AsciiSafe
                    \/ /\ row.content_name = <<>>
                       /\ \E j \in 1..d : row.filename[k] = row.content_id[j]

C24_Witness ==
    /\ is_hierarchical
    /\ pc = "analyze"
    /\ entries[idx].course = <<".", ".">>
    /\ entries[idx].content_url = UrlWideId
    /\ row.target_dir = <<output_dir, <<"M">>, <<"S">> >>
    /\ row.filename = <<"u", "-", "<U+0663>", "1", ".h5p">>


\* the stripped cell of column k, empty where the row has no such column
CellOf(r, k) == IF Len(r) > k THEN Strip(r[k + 1], Whitespace) ELSE <<>>

\* the most recent non-blank value of column k in the data rows 4..n
MostRecent(sheet, k, n) ==
    LET ms == {m \in 4..n : CellOf(sheet[m], k) /= <<>>}
    IN  IF ms = {} THEN <<>>
        ELSE CellOf(sheet[CHOOSE m \in ms : \A o \in ms : o <= m], k)

\* the data rows up to n whose column 6 is an h5p content URL, in input order
RECURSIVE EmittingRows(_, _)
EmittingRows(sheet, n) ==
    IF n < 4 THEN <<>>
    ELSE IF is_h5p_url(CellOf(sheet[n], 6))
         THEN Append(EmittingRows(sheet, n - 1), n)
         ELSE EmittingRows(sheet, n - 1)

\* C25: convert_csv emits one row per data row (row 4 onward) whose column 6
\* is an h5p content URL, in input order, and the course, module and section
\* of an emitted row are the most recent non-blank values of columns 1, 2
\* and 4 in any data row at or before it, rows without a URL included; the
\* first three rows never contribute.
C25_CarryForwardFromAnyRow ==
    pc = "convert_row" =>
        LET done == IF row_index - 1 <= Len(rows) THEN row_index - 1 ELSE Len(rows)
            from == EmittingRows(rows, done)
            out  == Tail(output_rows)
        IN  /\ Len(out) = Len(from)
            /\ \A j \in 1..Len(out) :
                /\ out[j][1] = MostRecent(rows, 1, from[j])
                /\ out[j][2] = MostRecent(rows, 2, from[j])
                /\ out[j][3] = MostRecent(rows, 4, from[j])

=============================================================================
